---- MODULE Spec2Model ----
(***************************************************************************)
(* eda-cli (homeworks/HW03): the statistics and quality-scoring engine of  *)
(* eda_cli/core.py, as pure functions of a DataFrame.                      *)
(*                                                                         *)
(* A DataFrame is [nrows, cols]; a column is [name, kind, cells].  A cell  *)
(* is NULL (NaN / None) or a value 0..MaxVal.  In a "number" column the    *)
(* value is the number itself; in an "object" column the value v stands    *)
(* for the v-th string of a lexicographically increasing list of strings,  *)
(* so that < on values is the sort order pandas uses.  A column name is a  *)
(* tuple of characters, so that lower() and substring search are computed. *)
(*                                                                         *)
(* A float is [cls, num, den]: cls = "num" is the rational num/den in      *)
(* lowest terms, cls = "sqrt" the square root of num/den, "nan" and "inf"  *)
(* the IEEE specials that numpy division produces.                         *)
(***************************************************************************)
EXTENDS Integers, Sequences, FiniteSets, TLC

\* ---- bounds of the model -------------------------------------------------
MaxRows == 2
MaxCols == 2
MaxVal == 1
ColRows == 5
WideRows == 2
WideCols == 3
MaxExtra == 8

\* ---- values ----------------------------------------------------------------
NULL == -1
None == <<>>

Abs(x) == IF x < 0 THEN -x ELSE x
Min2(a, b) == IF a < b THEN a ELSE b
Max2(a, b) == IF a > b THEN a ELSE b

RECURSIVE GCD(_, _)
GCD(a, b) == IF b = 0 THEN a ELSE GCD(b, a % b)

NaN == [cls |-> "nan", num |-> 0, den |-> 1]
Inf == [cls |-> "inf", num |-> 0, den |-> 1]
\* the float nearest to n/d, d > 0 (exact for every ratio the model forms)
Frac(n, d) ==
    LET g == GCD(Abs(n), d)
    IN [cls |-> "num", num |-> n \div g, den |-> d \div g]
IsNumber(x) == x.cls \in {"num", "sqrt"}

\* numpy true division of a non-negative count by a non-negative count:
\* 0/0 is nan and x/0 is inf (a RuntimeWarning, not an exception)
np_div(a, b) == IF b = 0 THEN (IF a = 0 THEN NaN ELSE Inf) ELSE Frac(a, b)

\* x > y on floats; every comparison with nan is False
float_gt(x, y) ==
    CASE x.cls = "nan" \/ y.cls = "nan" -> FALSE
      [] x.cls = "inf" -> y.cls # "inf"
      [] y.cls = "inf" -> FALSE
      [] OTHER -> x.num * y.den > y.num * x.den

\* ---- the tables the model ranges over ------------------------------------
Cells == (0..MaxVal) \cup {NULL}

Schema == {
    [name |-> <<"i", "d">>,      kind |-> "number"],
    [name |-> <<"u", "I", "d">>, kind |-> "object"],
    [name |-> <<"v", "a", "l">>, kind |-> "number"],
    [name |-> <<"t", "a", "g">>, kind |-> "object"],
    [name |-> <<"I", "D", "X">>, kind |-> "other"] }

ColumnsOf(n) ==
    {[name |-> s.name, kind |-> s.kind, cells |-> c] : s \in Schema, c \in [1..n -> Cells]}

\* d is a table of one of the row counts and column counts; names are unique
IsTable(d, rows, ncols) ==
    \E n \in rows, k \in ncols :
        \E cs \in [1..k -> ColumnsOf(n)] :
            /\ \A i, j \in 1..k : i # j => cs[i].name # cs[j].name
            /\ d = [nrows |-> n, cols |-> cs]

VARIABLES df, pc, fn, args, result

vars == <<df, pc, fn, args, result>>

\* ---- pandas primitives ---------------------------------------------------
len(d) == d.nrows
Columns(d) == [i \in DOMAIN d.cols |-> d.cols[i].name]
NameSet(d) == {d.cols[i].name : i \in DOMAIN d.cols}
\* df[col]
Series(d, name) == d.cols[CHOOSE i \in DOMAIN d.cols : d.cols[i].name = name].cells

\* df.select_dtypes(include=...).columns.tolist()
select_dtypes(d, kinds) ==
    LET keep(c) == c.kind \in kinds
        kept == SelectSeq(d.cols, keep)
    IN [i \in DOMAIN kept |-> kept[i].name]

Count(cells, v) == Cardinality({i \in DOMAIN cells : cells[i] = v})

\* Series.isnull().sum()
isnull_sum(cells) == Count(cells, NULL)

nunique_keeps_null(cells, dropna) ==
    Cardinality({cells[i] : i \in DOMAIN cells})

\* Series.nunique(dropna)
nunique(cells, dropna) ==
    Cardinality({cells[i] : i \in DOMAIN cells} \ (IF dropna THEN {NULL} ELSE {}))

\* Series.duplicated().sum(): rows whose value occurred in an earlier row
\* (keep="first"; missing cells are equal to each other)
duplicated_sum(cells) ==
    Cardinality({i \in DOMAIN cells : \E j \in 1..(i - 1) : cells[j] = cells[i]})

value_counts_ties_by_value(cells, dropna) ==
    LET idx == {i \in DOMAIN cells :
                   /\ \A j \in 1..(i - 1) : cells[j] # cells[i]
                   /\ dropna => cells[i] # NULL}
        cnt(i) == Count(cells, cells[i])
        before(i, j) == cnt(i) > cnt(j) \/ (cnt(i) = cnt(j) /\ cells[i] < cells[j])
        at(r) == CHOOSE i \in idx : Cardinality({j \in idx : before(j, i)}) = r - 1
    IN [r \in 1..Cardinality(idx) |-> [value |-> cells[at(r)], count |-> cnt(at(r))]]

\* Series.value_counts(dropna): one entry per distinct value, by descending
\* count; equal counts keep the order of first appearance
value_counts(cells, dropna) ==
    LET idx == {i \in DOMAIN cells :
                   /\ \A j \in 1..(i - 1) : cells[j] # cells[i]
                   /\ dropna => cells[i] # NULL}
        cnt(i) == Count(cells, cells[i])
        before(i, j) == cnt(i) > cnt(j) \/ (cnt(i) = cnt(j) /\ i < j)
        at(r) == CHOOSE i \in idx : Cardinality({j \in idx : before(j, i)}) = r - 1
    IN [r \in 1..Cardinality(idx) |-> [value |-> cells[at(r)], count |-> cnt(at(r))]]

\* Series.head(n): the first n entries, all but the last -n when n < 0
head(s, n) ==
    IF n >= 0 THEN SubSeq(s, 1, Min2(n, Len(s)))
    ELSE SubSeq(s, 1, Max2(0, Len(s) + n))

SortAsc(S) ==
    [r \in 1..Cardinality(S) |-> CHOOSE v \in S : Cardinality({w \in S : w < v}) = r - 1]

mode_first_encountered(cells) ==
    LET vc == value_counts(cells, TRUE)
    IN IF vc = <<>> THEN <<>> ELSE <<vc[1].value>>

\* Series.mode(): the most frequent non-missing values, sorted
mode(cells) ==
    LET vc == value_counts(cells, TRUE)
    IN IF vc = <<>> THEN <<>>
       ELSE SortAsc({vc[r].value : r \in {q \in DOMAIN vc : vc[q].count = vc[1].count}})

\* str(x): the text of a value, a str and no longer the value itself
py_str(v) == <<"str", v>>

RECURSIVE SumSeq(_)
SumSeq(s) == IF s = <<>> THEN 0 ELSE Head(s) + SumSeq(Tail(s))

\* the values of s in ascending order
Sorted(s) ==
    LET at(r) == CHOOSE i \in DOMAIN s :
                    Cardinality({j \in DOMAIN s :
                        s[j] < s[i] \/ (s[j] = s[i] /\ j < i)}) = r - 1
    IN [r \in DOMAIN s |-> s[at(r)]]

NotNull(v) == v # NULL
dropna(cells) == SelectSeq(cells, NotNull)

\* Series.mean(), skipna: nan when no value is left
mean(cells) ==
    LET xs == dropna(cells)
    IN IF xs = <<>> THEN NaN ELSE Frac(SumSeq(xs), Len(xs))

\* Series.std(), ddof=1: nan for fewer than two values
std(cells) ==
    LET xs == dropna(cells)
        n == Len(xs)
        sq == [i \in DOMAIN xs |-> xs[i] * xs[i]]
        vnum == n * SumSeq(sq) - SumSeq(xs) * SumSeq(xs)
    IN IF n <= 1 THEN NaN
       ELSE IF vnum = 0 THEN Frac(0, 1)
       ELSE [Frac(vnum, n * (n - 1)) EXCEPT !.cls = "sqrt"]

\* Series.min() / Series.max()
series_min(cells) ==
    LET xs == Sorted(dropna(cells))
    IN IF xs = <<>> THEN NaN ELSE Frac(xs[1], 1)

series_max(cells) ==
    LET xs == Sorted(dropna(cells))
    IN IF xs = <<>> THEN NaN ELSE Frac(xs[Len(xs)], 1)

\* Series.quantile(k/4), linear interpolation (median() is k = 2)
quantile(cells, k) ==
    LET xs == Sorted(dropna(cells))
        h == (Len(xs) - 1) * k
        lo == (h \div 4) + 1
        r == h % 4
    IN IF xs = <<>> THEN NaN
       ELSE IF r = 0 THEN Frac(xs[lo], 1)
       ELSE Frac(4 * xs[lo] + r * (xs[lo + 1] - xs[lo]), 4)

\* str.lower() over the alphabet of the column names
lower(name) ==
    LET lc(ch) == CASE ch = "I" -> "i" [] ch = "D" -> "d" [] ch = "X" -> "x"
                    [] OTHER -> ch
    IN [i \in DOMAIN name |-> lc(name[i])]

\* sub in name
contains(name, sub) ==
    \E i \in 1..(Len(name) - Len(sub) + 1) : SubSeq(name, i, i + Len(sub) - 1) = sub

\* a call's outcome: the value returned or the exception raised
Return(v) == [exc |-> "none", value |-> v]
Raise(e) == [exc |-> e, value |-> <<>>]

\* [f(x) for x in s if keep(x)]
Comprehension(s, keep(_), f(_)) ==
    LET kept == SelectSeq(s, keep)
    IN [i \in DOMAIN kept |-> f(kept[i])]

\* ---- eda_cli/core.py ------------------------------------------------------
\* memory_usage_mb is left out: no other function reads it
compute_basic_stats(d) ==
    [num_rows |-> len(d),
     num_columns |-> Len(d.cols),
     columns |-> Columns(d),
     dtypes |-> [c \in NameSet(d) |-> d.cols[CHOOSE i \in DOMAIN d.cols : d.cols[i].name = c].kind]]

compute_missing_stats(d) ==
    LET missing_counts == [c \in NameSet(d) |-> isnull_sum(Series(d, c))]
        missing_shares == [c \in NameSet(d) |-> np_div(missing_counts[c], len(d))]
        has_missing(c) == missing_counts[c] > 0
        total == SumSeq([i \in DOMAIN d.cols |-> missing_counts[d.cols[i].name]])
    IN [missing_counts |-> missing_counts,
        missing_shares |-> missing_shares,
        cols_with_missing |-> SelectSeq(Columns(d), has_missing),
        total_missing |-> total,
        total_missing_share |-> np_div(total, len(d) * Len(d.cols))]

compute_numeric_stats_share_of_non_null(d) ==
    LET numeric_cols == select_dtypes(d, {"number"})
    IN [numeric_cols |-> numeric_cols,
        stats |-> [c \in {numeric_cols[i] : i \in DOMAIN numeric_cols} |->
            [mean |-> mean(Series(d, c)),
             std |-> std(Series(d, c)),
             min |-> series_min(Series(d, c)),
             max |-> series_max(Series(d, c)),
             median |-> quantile(Series(d, c), 2),
             q25 |-> quantile(Series(d, c), 1),
             q75 |-> quantile(Series(d, c), 3),
             zeros_count |-> Count(Series(d, c), 0),
             zeros_share |-> np_div(Count(Series(d, c), 0), Len(dropna(Series(d, c))))]]]

compute_numeric_stats(d) ==
    LET numeric_cols == select_dtypes(d, {"number"})
    IN [numeric_cols |-> numeric_cols,
        stats |-> [c \in {numeric_cols[i] : i \in DOMAIN numeric_cols} |->
            [mean |-> mean(Series(d, c)),
             std |-> std(Series(d, c)),
             min |-> series_min(Series(d, c)),
             max |-> series_max(Series(d, c)),
             median |-> quantile(Series(d, c), 2),
             q25 |-> quantile(Series(d, c), 1),
             q75 |-> quantile(Series(d, c), 3),
             zeros_count |-> Count(Series(d, c), 0),
             zeros_share |-> np_div(Count(Series(d, c), 0), len(d))]]]

categorical_column_stats(cells, top_k) ==
    LET counts == value_counts(cells, FALSE)
    IN [unique_count |-> nunique(cells, TRUE),
        mode |-> IF mode(cells) = <<>> THEN None ELSE py_str(mode(cells)[1]),
        mode_count |-> IF counts = <<>> THEN 0 ELSE counts[1].count,
        top_values |-> head(counts, top_k)]

compute_categorical_stats(d, top_k) ==
    LET cat_cols == select_dtypes(d, {"object"})
    IN [categorical_cols |-> cat_cols,
        stats |-> [c \in {cat_cols[i] : i \in DOMAIN cat_cols} |->
                      categorical_column_stats(Series(d, c), top_k)]]

DefaultTopK == 5
default_min_missing_share == Frac(3, 10)
high_cardinality_threshold == Frac(1, 2)
zero_threshold == Frac(2, 5)

\* rule 1: columns whose missing share exceeds the threshold
high_missing_cols(d, min_missing_share) ==
    LET shares == compute_missing_stats(d).missing_shares
        high(c) == float_gt(shares[c], min_missing_share)
    IN SelectSeq(Columns(d), high)

constant_cols_keeps_null(d) ==
    LET constant(c) == nunique(Series(d, c), FALSE) <= 1
    IN SelectSeq(Columns(d), constant)

\* rule 2: columns with at most one distinct non-missing value
constant_cols(d) ==
    LET constant(c) == nunique(Series(d, c), TRUE) <= 1
    IN SelectSeq(Columns(d), constant)

\* rule 3: unique_count / len(df) is a division of Python ints
high_cardinality_cols(d) ==
    LET cat_stats == compute_categorical_stats(d, DefaultTopK)
        ratio(c) == Frac(cat_stats.stats[c].unique_count, len(d))
        high(c) == float_gt(ratio(c), high_cardinality_threshold)
        entry(c) == [column |-> c,
                     unique_count |-> cat_stats.stats[c].unique_count,
                     unique_ratio |-> ratio(c)]
    IN Comprehension(cat_stats.categorical_cols, high, entry)

id_candidates_case_sensitive(d) ==
    LET candidate(c) == contains(c, <<"i", "d">>) \/ contains(c, <<"I", "D">>)
    IN SelectSeq(Columns(d), candidate)

\* rule 4: the columns taken for identifiers
id_candidates(d) ==
    LET candidate(c) == contains(lower(c), <<"i", "d">>) \/ contains(c, <<"I", "D">>)
    IN SelectSeq(Columns(d), candidate)

suspicious_id_duplicates(d) ==
    LET dup(c) == duplicated_sum(Series(d, c)) > 0
        entry(c) == [column |-> c,
                     duplicate_count |-> duplicated_sum(Series(d, c)),
                     duplicate_share |-> np_div(duplicated_sum(Series(d, c)), len(d))]
    IN Comprehension(id_candidates(d), dup, entry)

many_zeros_cols_at_threshold(d) ==
    LET numeric_stats == compute_numeric_stats(d)
        many(c) == /\ numeric_stats.stats[c].zeros_share.cls = "num"
                   /\ ~float_gt(zero_threshold, numeric_stats.stats[c].zeros_share)
        entry(c) == [column |-> c,
                     zero_count |-> numeric_stats.stats[c].zeros_count,
                     zero_share |-> numeric_stats.stats[c].zeros_share]
    IN Comprehension(numeric_stats.numeric_cols, many, entry)

\* rule 5: numeric columns whose share of zeros exceeds the threshold
many_zeros_cols(d) ==
    LET numeric_stats == compute_numeric_stats(d)
        many(c) == float_gt(numeric_stats.stats[c].zeros_share, zero_threshold)
        entry(c) == [column |-> c,
                     zero_count |-> numeric_stats.stats[c].zeros_count,
                     zero_share |-> numeric_stats.stats[c].zeros_share]
    IN Comprehension(numeric_stats.numeric_cols, many, entry)

\* the penalties of the five rules, from the lengths of their evidence lists
penalties(n_missing, n_constant, n_cardinality, n_id, n_zeros) ==
    [high_missing |-> n_missing * 15,
     constant_cols |-> n_constant * 10,
     high_cardinality |-> n_cardinality * 8,
     id_duplicates |-> n_id * 12,
     many_zeros |-> n_zeros * 7]

total_penalty(p) ==
    p.high_missing + p.constant_cols + p.high_cardinality + p.id_duplicates + p.many_zeros

quality_score_unclamped(total) == 100 - total

quality_score_abs(total) == Abs(100 - total)

quality_score(total) == Max2(0, 100 - total)

\* unique_count / len(df) raises for the first categorical column of a
\* table without rows: both operands are Python ints
high_cardinality_raises(d) ==
    select_dtypes(d, {"object"}) # <<>> /\ len(d) = 0

compute_quality_flags(d, min_missing_share) ==
    IF high_cardinality_raises(d)
    THEN Raise("ZeroDivisionError")
    ELSE
    LET missing == high_missing_cols(d, min_missing_share)
        constant == constant_cols(d)
        cardinality == high_cardinality_cols(d)
        duplicates == suspicious_id_duplicates(d)
        zeros == many_zeros_cols(d)
        p == penalties(Len(missing), Len(constant), Len(cardinality),
                       Len(duplicates), Len(zeros))
    IN Return(
       [has_high_missing_share |-> Len(missing) > 0,
        high_missing_cols |-> missing,
        high_missing_threshold |-> min_missing_share,
        has_constant_columns |-> Len(constant) > 0,
        constant_columns |-> constant,
        has_high_cardinality_categoricals |-> Len(cardinality) > 0,
        high_cardinality_cols |-> cardinality,
        high_cardinality_threshold |-> high_cardinality_threshold,
        has_suspicious_id_duplicates |-> Len(duplicates) > 0,
        suspicious_id_duplicates |-> duplicates,
        has_many_zero_values |-> Len(zeros) > 0,
        many_zeros_cols |-> zeros,
        zero_threshold |-> zero_threshold,
        quality_score |-> quality_score(total_penalty(p)),
        quality_penalties |-> p])

\* the dict literal evaluates its entries in order; an exception of
\* compute_quality_flags propagates and nothing is returned
generate_report_data(d, max_hist_columns, top_k_categories, min_missing_share, title) ==
    LET flags == compute_quality_flags(d, min_missing_share)
    IN IF flags.exc # "none" THEN flags
       ELSE Return(
         [title |-> title,
          basic_stats |-> compute_basic_stats(d),
          missing_stats |-> compute_missing_stats(d),
          numeric_stats |-> compute_numeric_stats(d),
          categorical_stats |-> compute_categorical_stats(d, top_k_categories),
          quality_flags |-> flags.value,
          report_params |-> [max_hist_columns |-> max_hist_columns,
                             top_k_categories |-> top_k_categories,
                             min_missing_share |-> min_missing_share,
                             title |-> title]])

\* ---- the calls ------------------------------------------------------------

MaxTopK == 3
TopKs == (-1)..MaxTopK
MissingShares ==
    {default_min_missing_share, Frac(0, 1), Frac(1, 2), Frac(1, 1), Frac(-1, 10), Frac(3, 2)}
ReportParams ==
    {[max_hist_columns |-> 10, top_k_categories |-> k, min_missing_share |-> m, title |-> "EDA"] :
        k \in {-1, 0, 2}, m \in {default_min_missing_share, Frac(-1, 10), Frac(3, 2)}}

Ready(rows, ncols) ==
    /\ IsTable(df, rows, ncols)
    /\ pc = "ready"
    /\ fn = "none"
    /\ args = <<>>
    /\ result = <<>>

Init == Ready(0..MaxRows, 0..MaxCols)

InitWide == Ready(0..WideRows, 0..WideCols)

InitColumn == Ready(0..ColRows, {1})

Finish(name, a, outcome) ==
    /\ pc = "ready"
    /\ pc' = IF outcome.exc = "none" THEN "returned" ELSE "raised"
    /\ fn' = name
    /\ args' = a
    /\ result' = outcome
    /\ UNCHANGED df

Call_compute_basic_stats ==
    Finish("compute_basic_stats", <<>>, Return(compute_basic_stats(df)))

Call_compute_missing_stats ==
    Finish("compute_missing_stats", <<>>, Return(compute_missing_stats(df)))

Call_compute_numeric_stats ==
    Finish("compute_numeric_stats", <<>>, Return(compute_numeric_stats(df)))

Call_compute_categorical_stats ==
    \E top_k \in TopKs :
        Finish("compute_categorical_stats", [top_k |-> top_k],
               Return(compute_categorical_stats(df, top_k)))

Call_compute_quality_flags ==
    \E m \in MissingShares :
        Finish("compute_quality_flags", [min_missing_share |-> m],
               compute_quality_flags(df, m))

Call_generate_report_data ==
    \E a \in ReportParams :
        Finish("generate_report_data", a,
               generate_report_data(df, a.max_hist_columns, a.top_k_categories,
                                    a.min_missing_share, a.title))

Next ==
    \/ Call_compute_basic_stats
    \/ Call_compute_missing_stats
    \/ Call_compute_numeric_stats
    \/ Call_compute_categorical_stats
    \/ Call_compute_quality_flags
    \/ Call_generate_report_data

NextWide == Call_compute_quality_flags

NextColumn ==
    \/ Call_compute_numeric_stats
    \/ Call_compute_categorical_stats
    \/ Call_compute_quality_flags

Spec == Init /\ [][Next]_vars

\* tables of up to WideRows rows and up to WideCols columns, scored
SpecWide == InitWide /\ [][NextWide]_vars

\* tables of one column and up to ColRows rows, profiled and scored
SpecColumn == InitColumn /\ [][NextColumn]_vars

\* ---- the table of test_compute_quality_flags_many_zeros -------------------
TestRows == 10
col_with_many_zeros ==
    <<"c", "o", "l", "_", "w", "i", "t", "h", "_", "m", "a", "n", "y", "_", "z", "e", "r", "o", "s">>
col_with_few_zeros ==
    <<"c", "o", "l", "_", "w", "i", "t", "h", "_", "f", "e", "w", "_", "z", "e", "r", "o", "s">>
categorical_col ==
    <<"c", "a", "t", "e", "g", "o", "r", "i", "c", "a", "l", "_", "c", "o", "l">>

\* z zeros, then 1, 2, ...: [0, 0, 0, 0, 1, ..., 6] for z = 4, [0, 1, ..., 9] for z = 1
ZerosThen(z) == [i \in 1..TestRows |-> IF i <= z THEN 0 ELSE i - z]

\* the test's DataFrame with z1 and z2 zeros in its two numeric columns;
\* the third column is ['A', 'B'] * 5
TestTable(z1, z2) ==
    [nrows |-> TestRows,
     cols |-> <<[name |-> col_with_many_zeros, kind |-> "number", cells |-> ZerosThen(z1)],
                [name |-> col_with_few_zeros, kind |-> "number", cells |-> ZerosThen(z2)],
                [name |-> categorical_col, kind |-> "object",
                 cells |-> [i \in 1..TestRows |-> (i + 1) % 2]]>>]

InitTest ==
    /\ \E z1, z2 \in 0..TestRows : df = TestTable(z1, z2)
    /\ pc = "ready"
    /\ fn = "none"
    /\ args = <<>>
    /\ result = <<>>

\* the test's table, with every number of zeros in its numeric columns, scored
SpecTest == InitTest /\ [][NextWide]_vars

\* ---- properties -----------------------------------------------------------
Returned(name) == fn = name /\ pc = "returned"

\* the cells of each column, read off the table itself
CellsAt(c) == df.cols[CHOOSE i \in DOMAIN df.cols : df.cols[i].name = c].cells
KindAt(c) == df.cols[CHOOSE i \in DOMAIN df.cols : df.cols[i].name = c].kind
DistinctNonNull(c) == {CellsAt(c)[i] : i \in DOMAIN CellsAt(c)} \ {NULL}
DistinctAll(c) == {CellsAt(c)[i] : i \in DOMAIN CellsAt(c)}
Occurrences(c, v) == Cardinality({i \in DOMAIN CellsAt(c) : CellsAt(c)[i] = v})
FirstRow(c, v) == CHOOSE i \in DOMAIN CellsAt(c) :
                      CellsAt(c)[i] = v /\ \A j \in 1..(i - 1) : CellsAt(c)[j] # v
Range(s) == {s[i] : i \in DOMAIN s}

\* C1: compute_quality_flags returns the penalties 15, 10, 8, 12 and 7 times
\* the lengths of the five evidence lists, and quality_score = max(0, 100 -
\* their sum), an integer in 0..100; one constant column and nothing else
\* triggered scores exactly 90.
C1_ScoreFormula ==
    Returned("compute_quality_flags") =>
        LET f == result.value
            sum == 15 * Len(f.high_missing_cols) + 10 * Len(f.constant_columns)
                   + 8 * Len(f.high_cardinality_cols)
                   + 12 * Len(f.suspicious_id_duplicates) + 7 * Len(f.many_zeros_cols)
        IN /\ f.quality_penalties =
                  [high_missing |-> 15 * Len(f.high_missing_cols),
                   constant_cols |-> 10 * Len(f.constant_columns),
                   high_cardinality |-> 8 * Len(f.high_cardinality_cols),
                   id_duplicates |-> 12 * Len(f.suspicious_id_duplicates),
                   many_zeros |-> 7 * Len(f.many_zeros_cols)]
           /\ f.quality_score = (IF sum >= 100 THEN 0 ELSE 100 - sum)
           /\ f.quality_score \in 0..100
           /\ (/\ Len(f.constant_columns) = 1
               /\ f.high_missing_cols = <<>>
               /\ f.high_cardinality_cols = <<>>
               /\ f.suspicious_id_duplicates = <<>>
               /\ f.many_zeros_cols = <<>>) => f.quality_score = 90

\* a table with one constant column and no other rule triggered scored 90
C1_Witness ==
    /\ Returned("compute_quality_flags")
    /\ Len(df.cols) >= 2
    /\ Len(result.value.constant_columns) = 1
    /\ result.value.quality_penalties =
           [high_missing |-> 0, constant_cols |-> 10, high_cardinality |-> 0,
            id_duplicates |-> 0, many_zeros |-> 0]
    /\ result.value.quality_score = 90

InDomain(a) ==
    /\ a.top_k_categories > 0
    /\ a.max_hist_columns > 0
    /\ ~float_gt(Frac(0, 1), a.min_missing_share)
    /\ ~float_gt(a.min_missing_share, Frac(1, 1))

Zero == Frac(0, 1)

\* every share of a report whose denominator is zero is exactly 0
ZeroDenominatorSharesAreZero(r) ==
    /\ len(df) = 0 =>
          /\ \A c \in DOMAIN r.missing_stats.missing_shares :
                 r.missing_stats.missing_shares[c] = Zero
          /\ \A c \in DOMAIN r.numeric_stats.stats :
                 r.numeric_stats.stats[c].zeros_share = Zero
          /\ \A i \in DOMAIN r.quality_flags.high_cardinality_cols :
                 r.quality_flags.high_cardinality_cols[i].unique_ratio = Zero
          /\ \A i \in DOMAIN r.quality_flags.suspicious_id_duplicates :
                 r.quality_flags.suspicious_id_duplicates[i].duplicate_share = Zero
    /\ len(df) * Len(df.cols) = 0 => r.missing_stats.total_missing_share = Zero

\* C2: for any table and any in-domain configuration generate_report_data
\* completes without raising, and every share it reports whose denominator
\* is zero is exactly 0.
C2_DegenerateDataCompletes ==
    (fn = "generate_report_data" /\ InDomain(args)) =>
        /\ pc = "returned"
        /\ ZeroDenominatorSharesAreZero(result.value)

\* C3: generate_report_data rejects an out-of-domain configuration with a
\* configuration error and returns no ReportData for it.
C3_RejectsOutOfDomainConfiguration ==
    (fn = "generate_report_data" /\ ~InDomain(args)) =>
        /\ pc = "raised"
        /\ result.exc = "ConfigurationError"

\* C4: compute_missing_stats returns total_missing = the sum of
\* missing_counts over the columns and total_missing_share = total_missing /
\* (rows * columns), which is 0 when rows * columns is 0.
C4_MissingTotals ==
    Returned("compute_missing_stats") =>
        LET m == result.value
            nulls == {<<c, i>> \in NameSet(df) \X (1..len(df)) : CellsAt(c)[i] = NULL}
        IN /\ \A c \in NameSet(df) : m.missing_counts[c] = Occurrences(c, NULL)
           /\ m.total_missing = Cardinality(nulls)
           /\ m.total_missing_share =
                  IF len(df) * Len(df.cols) = 0 THEN Zero
                  ELSE Frac(m.total_missing, len(df) * Len(df.cols))

\* C5: with the lengths of four evidence lists unchanged and the fifth
\* longer, the score the scorer gives is not above the score returned, also
\* when the score returned is already 0.
C5_ScoreMonotone ==
    Returned("compute_quality_flags") =>
        LET f == result.value
            n == [high_missing |-> Len(f.high_missing_cols),
                  constant_cols |-> Len(f.constant_columns),
                  high_cardinality |-> Len(f.high_cardinality_cols),
                  id_duplicates |-> Len(f.suspicious_id_duplicates),
                  many_zeros |-> Len(f.many_zeros_cols)]
            score(m) == quality_score(total_penalty(penalties(
                            m.high_missing, m.constant_cols, m.high_cardinality,
                            m.id_duplicates, m.many_zeros)))
        IN \A rule \in DOMAIN n : \A k \in 1..MaxExtra :
               /\ score([n EXCEPT ![rule] = @ + k]) <= f.quality_score
               /\ score(n) = f.quality_score

\* a score clamped at 0: the penalties add up to more than 100
C5_Witness ==
    /\ Returned("compute_quality_flags")
    /\ total_penalty(result.value.quality_penalties) > 100
    /\ result.value.quality_score = 0

CatStats(c) == result.value.stats[c]
CatCols == Range(result.value.categorical_cols)

MostFrequent(c) ==
    {v \in DistinctNonNull(c) : \A w \in DistinctNonNull(c) : Occurrences(c, v) >= Occurrences(c, w)}

\* C8 as stated: the mode is the most frequent value, among several the one
\* that appears first in the column, and None for an entirely empty column.
C8_ModeFirstEncountered ==
    Returned("compute_categorical_stats") =>
        \A c \in CatCols :
            CatStats(c).mode =
                IF DistinctNonNull(c) = {} THEN None
                ELSE py_str(CHOOSE v \in MostFrequent(c) :
                                \A w \in MostFrequent(c) : FirstRow(c, v) <= FirstRow(c, w))

\* C8 (amended): the mode is the text of the most frequent non-null value,
\* among several the smallest in sort order, and None for a column without
\* a non-null value.
C8_ModeSmallestOfMostFrequent ==
    Returned("compute_categorical_stats") =>
        \A c \in CatCols :
            CatStats(c).mode =
                IF DistinctNonNull(c) = {} THEN None
                ELSE py_str(CHOOSE v \in MostFrequent(c) : \A w \in MostFrequent(c) : v <= w)

\* two values tie, the larger one first in the column: the mode is the smaller
C8_Witness ==
    /\ Returned("compute_categorical_stats")
    /\ len(df) >= 2
    /\ \E c \in CatCols :
           /\ CellsAt(c)[1] = 1
           /\ MostFrequent(c) = {0, 1}
           /\ CatStats(c).mode = py_str(0)

\* the name has an "i" or "I" directly followed by a "d" or "D"
NameHasId(c) ==
    \E i \in 1..(Len(c) - 1) : c[i] \in {"i", "I"} /\ c[i + 1] \in {"d", "D"}

\* rows whose value, a null included, stands in an earlier row as well
RepeatedRows(c) == len(df) - Cardinality(DistinctAll(c))

\* C9: suspicious_id_duplicates lists exactly the columns whose name
\* contains "id" in any case and in which a value repeats, each with
\* duplicate_count = the rows whose value occurred in an earlier row and
\* duplicate_share = duplicate_count / row_count; the flag is true iff the
\* list is not empty.
C9_IdDuplicates ==
    Returned("compute_quality_flags") =>
        LET dups == result.value.suspicious_id_duplicates
            suspicious(c) == NameHasId(c) /\ RepeatedRows(c) > 0
        IN /\ [i \in DOMAIN dups |-> dups[i].column] = SelectSeq(Columns(df), suspicious)
           /\ \A i \in DOMAIN dups :
                  /\ dups[i].duplicate_count = RepeatedRows(dups[i].column)
                  /\ dups[i].duplicate_share = Frac(dups[i].duplicate_count, len(df))
           /\ result.value.has_suspicious_id_duplicates = (dups # <<>>)

\* the column "uId", an identifier only when case is ignored, was listed
\* after "id", its second row repeating the first
C9_Witness ==
    /\ Returned("compute_quality_flags")
    /\ Len(result.value.suspicious_id_duplicates) = 2
    /\ result.value.suspicious_id_duplicates[2] =
           [column |-> <<"u", "I", "d">>, duplicate_count |-> 1,
            duplicate_share |-> Frac(1, 2)]

\* C10: constant_columns lists, in column order, exactly the columns of any
\* kind with at most one distinct non-null value, all-null columns included;
\* the flag is true iff the list is not empty, and the list costs 10 points
\* of the score for each of its columns.
C10_ConstantColumns ==
    Returned("compute_quality_flags") =>
        LET f == result.value
            constant(c) ==
                \A i, j \in DOMAIN CellsAt(c) :
                    (CellsAt(c)[i] # NULL /\ CellsAt(c)[j] # NULL) => CellsAt(c)[i] = CellsAt(c)[j]
            others == f.quality_penalties.high_missing + f.quality_penalties.high_cardinality
                      + f.quality_penalties.id_duplicates + f.quality_penalties.many_zeros
        IN /\ f.constant_columns = SelectSeq(Columns(df), constant)
           /\ f.has_constant_columns = (f.constant_columns # <<>>)
           /\ f.quality_penalties.constant_cols = 10 * Len(f.constant_columns)
           /\ f.quality_score = Max2(0, 100 - others - 10 * Len(f.constant_columns))

\* an all-null column of the third kind and a numeric column with one value
\* and a null were both listed, in table order, costing 20 points
C10_Witness ==
    /\ Returned("compute_quality_flags")
    /\ len(df) = 2
    /\ Len(df.cols) = 2
    /\ df.cols[1].kind = "other"
    /\ df.cols[1].cells = <<NULL, NULL>>
    /\ df.cols[2].kind = "number"
    /\ df.cols[2].cells = <<1, NULL>>
    /\ result.value.constant_columns = <<df.cols[1].name, df.cols[2].name>>
    /\ result.value.quality_penalties.constant_cols = 20

NumStats(c) == result.value.stats[c]
NumCols == Range(result.value.numeric_cols)
\* the cells of a column that hold a number other than 0
NonZeroRows(c) == {i \in DOMAIN CellsAt(c) : CellsAt(c)[i] # NULL /\ CellsAt(c)[i] # 0}

\* C11: for every numeric column of a table with n > 0 rows, zeros_count is
\* the number of cells equal to 0, nulls not among them; zeros_share is
\* zeros_count / n, n counting the null cells too, and lies in [0, 1].
C11_ZerosShare ==
    (Returned("compute_numeric_stats") /\ len(df) > 0) =>
        \A c \in NumCols :
            LET z == NumStats(c).zeros_count
                share == NumStats(c).zeros_share
            IN /\ z = len(df) - Occurrences(c, NULL) - Cardinality(NonZeroRows(c))
               /\ share.cls = "num"
               /\ share.num * len(df) = z * share.den
               /\ 0 <= share.num /\ share.num <= share.den

\* a numeric column with a null, a zero and another number: the share of
\* zeros is a third, not a half
C11_Witness ==
    /\ Returned("compute_numeric_stats")
    /\ len(df) = 3
    /\ \E c \in NumCols :
           /\ Occurrences(c, NULL) = 1
           /\ Occurrences(c, 0) = 1
           /\ NumStats(c).zeros_count = 1
           /\ NumStats(c).zeros_share = Frac(1, 3)

C13_FortyPercentFlagged ==
    (Returned("compute_quality_flags") /\ df = TestTable(4, 1)) =>
        LET mz == result.value.many_zeros_cols
        IN /\ result.value.has_many_zero_values = TRUE
           /\ [i \in DOMAIN mz |-> mz[i].column] = <<col_with_many_zeros>>

\* a float in a numeric field: a number, nan or an infinity
IsFloat(x) == x.cls \in {"num", "sqrt", "nan", "inf"}

\* C14: for a numeric column with 0 or 1 non-null values compute_numeric_stats
\* reports std as a marker that is no float (neither 0 nor nan in a numeric
\* field), and for a column without a non-null value so are mean, min, max,
\* median and the quartiles.
C14_UndefinedIsExplicit ==
    Returned("compute_numeric_stats") =>
        \A c \in NumCols :
            LET n == len(df) - Occurrences(c, NULL)
            IN /\ n <= 1 => ~IsFloat(NumStats(c).std)
               /\ n = 0 => /\ ~IsFloat(NumStats(c).mean)
                           /\ ~IsFloat(NumStats(c).min)
                           /\ ~IsFloat(NumStats(c).max)
                           /\ ~IsFloat(NumStats(c).median)
                           /\ ~IsFloat(NumStats(c).q25)
                           /\ ~IsFloat(NumStats(c).q75)

\* C15: for a categorical column with a non-null value, mode_count is the
\* number of cells equal to the reported mode, also when nulls are the most
\* frequent entry; for a column without a non-null value mode is None and
\* mode_count is 0.
C15_ModeCountOfMode ==
    Returned("compute_categorical_stats") =>
        \A c \in CatCols :
            IF DistinctNonNull(c) = {}
            THEN CatStats(c).mode = None /\ CatStats(c).mode_count = 0
            ELSE \E v \in DistinctNonNull(c) :
                    /\ CatStats(c).mode = py_str(v)
                    /\ CatStats(c).mode_count = Occurrences(c, v)

====
